---- MODULE Spec2Model ----
(***************************************************************************)
(* Cart -> checkout orchestration core of YLOS_system: Cart, CartItem,     *)
(* ShippingPolicy, PaymentService, Order, OrderItem, CheckoutService.      *)
(*                                                                         *)
(* Conventions                                                             *)
(*  - a Python str is a sequence of one-character strings, so that         *)
(*    str.strip() is computed and not assumed;                             *)
(*  - a Decimal is an integer number of money units (exact arithmetic);    *)
(*  - a loosely typed Python value (a qty argument, a catalogue price, a   *)
(*    gateway return) is a record [t |-> type name, v |-> value];          *)
(*  - an exception is recorded by its kind in ret.outcome.                 *)
(***************************************************************************)
EXTENDS Integers, Sequences, FiniteSets, TLC

\* ------------------------------------------------------------------ bounds
MaxStock == 2
MaxPrice == 1
MaxOrders == 1

\* ------------------------------------------------------------ Python values
PyInt(n) == [t |-> "int", v |-> n]
PyBool(b) == [t |-> "bool", v |-> IF b THEN 1 ELSE 0]
PyFloat(n) == [t |-> "float", v |-> n]
PyStr(s) == [t |-> "str", v |-> s]

\* isinstance(x, bool)
IsBool(x) == x.t = "bool"
\* isinstance(x, int): bool is a subclass of int
IsInt(x) == x.t \in {"int", "bool"}
\* isinstance(x, str)
IsStr(x) == x.t = "str"
\* isinstance(x, (int, float, Decimal))
IsNumber(x) == x.t \in {"int", "bool", "float", "Decimal"}
\* truth value of a bool or a number
Truthy_Mut(x) == x.t = "bool"
Truthy(x) == x.v # 0

\* str.strip(): drop leading and trailing blanks
RECURSIVE LStrip(_)
LStrip(s) == IF s = <<>> THEN s
             ELSE IF Head(s) = " " THEN LStrip(Tail(s)) ELSE s

RECURSIVE RStrip(_)
RStrip(s) == IF s = <<>> THEN s
             ELSE IF s[Len(s)] = " " THEN RStrip(SubSeq(s, 1, Len(s) - 1)) ELSE s

Strip(s) == RStrip(LStrip(s))

\* Decimal(str(x)) of a finite number: the same amount, typed Decimal
ToDecimal(x) == x.v

\* --------------------------------------------------------------- catalogue
P1 == <<"P", "1">>
P2 == <<"P", "2">>
Products == {P1, P2}

\* the product an administrator edits while shoppers use the cart
Managed == {P1}

\* names the catalogue holds: P2's is stored with a leading blank
NameOf(p) == IF p = P1 THEN <<"M">> ELSE <<" ", "B">>

Prices == 0..MaxPrice
Stocks == 0..MaxStock

Absent == [found |-> FALSE, name |-> <<>>, price |-> PyFloat(0), stock |-> 0]
Record(p, price, stock) ==
    [found |-> TRUE, name |-> NameOf(p), price |-> PyFloat(price), stock |-> stock]

\* quantities a caller may pass: integers, booleans and floats
QtyInputs == {PyInt(n) : n \in -1..(MaxStock + 1)}
             \cup {PyBool(FALSE), PyBool(TRUE), PyFloat(1)}

\* quantities a shopper passes on the way to a checkout
ShopperQtys == {PyInt(1), PyInt(MaxStock)}

\* delivery addresses a customer may enter
Blank == <<" ">>
GoodAddress == [street |-> <<"1", " ", "S">>, city |-> <<"M">>, state |-> <<"V">>,
                postcode |-> <<"3", "0", "0", "0">>]
\* addresses entered at checkout: a valid one, a blank city, a letter in the postcode
Addresses == {GoodAddress,
              [GoodAddress EXCEPT !.city = Blank],
              [GoodAddress EXCEPT !.postcode = <<"3", "0", "0", "x">>]}

\* field values a caller may construct an Address from
StreetInputs == {<<>>, Blank, <<"1", " ", "S">>, <<" ", "S", " ">>}
NameInputs == {<<>>, Blank, <<"M">>}
PostcodeInputs == {<<>>, <<"3", "0", "0">>, <<"3", "0", "0", "0">>,
                   <<"3", "0", "0", "x">>, <<"3", "0", "0", "0", "0">>}

\* None where a message is expected, and None where a Decimal is expected
NoneMsg == [t |-> "NoneType", v |-> ""]
NoneDec == [t |-> "NoneType", v |-> 0]
PyDecimal(n) == [t |-> "Decimal", v |-> n]

\* shipping configurations: (flat_rate, free_over); free_over = None disables it
Policies == {[flat_rate |-> 1, free_over |-> NoneDec],
             [flat_rate |-> 1, free_over |-> PyDecimal(2)],
             [flat_rate |-> 0, free_over |-> NoneDec]}

\* order ids and amounts a caller may hand to PaymentService.charge
OrderIdInputs == {PyStr(<<>>), PyStr(<<" ">>), PyStr(<<"7">>), PyStr(<<" ", "7">>), PyInt(7)}
AmountInputs == {PyDecimal(n) : n \in -1..MaxPrice} \cup {PyFloat(-1), PyFloat(1)}

\* every configuration ShippingPolicy(flat_rate, free_over) accepts, in range
PolicyInputs ==
    {[flat_rate |-> f, free_over |-> o] :
        f \in 0..MaxPrice, o \in {NoneDec} \cup {PyDecimal(n) : n \in 0..MaxStock}}

\* what an injected gateway's charge() may hand back as (success, message)
GatewayReturns ==
    {[success |-> PyBool(TRUE), message |-> PyStr("Charged")],
     [success |-> PyBool(FALSE), message |-> PyStr("Card declined")],
     [success |-> PyInt(1), message |-> PyStr("Charged")],
     [success |-> PyBool(TRUE), message |-> NoneMsg]}

VARIABLES
    catalogue,  \* Catalogue storage: product id -> record
    cart,       \* Cart._items, in insertion order
    policy,     \* ShippingPolicy._flat_rate, _free_over
    gateway,    \* PaymentService._gateway: "none" or "injected"
    orders,     \* every Order constructed so far, in construction order
    charges,    \* every return of PaymentService.charge within place_order
    now,        \* the clock datetime.datetime.now() reads
    pc,         \* position inside place_order, "idle" outside it
    po,         \* locals of the running place_order
    ret,        \* outcome of the last completed call
    held,       \* the list a caller keeps from its last Cart.items() call
    logger      \* Cart._logger: "none" or "attached"

vars == <<catalogue, cart, policy, gateway, orders, charges, now, pc, po, ret, held,
          logger>>

checkout_vars == <<policy, gateway, orders, charges, now, pc, po>>

\* Catalogue.get_product(product_id): the record, or not found
GetProduct(cat, p) == cat[p]

\* ------------------------------------------------------------------- cart
\* CartItem(product_id, name, unit_price, qty)
CartItem(p, name, unit_price, qty) ==
    [product_id |-> p, name |-> name, unit_price |-> unit_price, qty |-> qty]

\* the checks of CartItem.__init__: unit_price >= 0 and qty >= 1
CartItemValid(unit_price, qty) == unit_price >= 0 /\ qty >= 1

\* CartItem.with_qty(new_qty): a new item, same id, name and price snapshot
WithQty(item, new_qty) ==
    CartItem(item.product_id, item.name, item.unit_price, new_qty)

\* CartItem.subtotal()
ItemSubtotal_Mut(item) == item.unit_price
ItemSubtotal(item) == item.unit_price * item.qty

\* product_id in self._items
InCart(c, p) == \E i \in 1..Len(c) : c[i].product_id = p

\* self._items[product_id]
LineOf(c, p) == c[CHOOSE i \in 1..Len(c) : c[i].product_id = p]

\* self._items[product_id] = item: an existing key keeps its position
PutLine_Mut(c, p, item) == Append(c, item)
PutLine(c, p, item) ==
    IF InCart(c, p)
    THEN [i \in 1..Len(c) |-> IF c[i].product_id = p THEN item ELSE c[i]]
    ELSE Append(c, item)

\* del self._items[product_id]
DelLine_Zero(c, p) ==
    [i \in 1..Len(c) |-> IF c[i].product_id = p THEN [c[i] EXCEPT !.qty = 0] ELSE c[i]]
DelLine(c, p) == SelectSeq(c, LAMBDA it : it.product_id # p)

\* Cart.items(): a fresh list of the lines
CartItems(c) == c

\* a list object in the caller's hands: its elements, and whether it is the
\* cart's own storage rather than a list of its own
NoList == [shared |-> FALSE, v |-> <<>>]

\* return list(self._items.values()): the caller receives a new list
ItemsReturn_Shared(c) == [shared |-> TRUE, v |-> CartItems(c)]
ItemsReturn(c) == [shared |-> FALSE, v |-> CartItems(c)]

\* what a list handed out earlier holds once the cart's storage is c2
HeldAfter(h, c2) == IF h.shared THEN [h EXCEPT !.v = c2] ELSE h

RECURSIVE SumSubtotals(_)
SumSubtotals(items) ==
    IF items = <<>> THEN 0
    ELSE ItemSubtotal(Head(items)) + SumSubtotals(Tail(items))

\* Cart.subtotal()
CartSubtotal(c) == SumSubtotals(c)

\* Cart.is_empty()
IsEmpty_Mut(c) == FALSE
IsEmpty(c) == Len(c) = 0

\* qty validation shared by add and update_qty: bool, non-int, < 1
QtyInvalid(q) == IsBool(q) \/ ~IsInt(q) \/ q.v < 1

\* existing_qty of add
ExistingQty(c, p) == IF InCart(c, p) THEN LineOf(c, p).qty ELSE 0

\* if intended_qty > stock: raise
AddExceedsStock_Mut(intended_qty, stock) == intended_qty > stock + 1
AddExceedsStock(intended_qty, stock) == intended_qty > stock

\* Cart.add(product_id, qty): the outcome and the cart it leaves
CartAdd_Mut(c, cat, p, q) ==
    LET fetch == GetProduct(cat, p)
        intended_qty == ExistingQty(c, p) + q.v
        new_item == CartItem(p, fetch.name, ToDecimal(fetch.price), intended_qty)
    IN  IF QtyInvalid(q) THEN [outcome |-> "ValidationError", cart |-> c]
        ELSE IF ~fetch.found THEN [outcome |-> "NotFound", cart |-> c]
        ELSE IF Strip(fetch.name) = <<>> THEN [outcome |-> "ValidationError", cart |-> c]
        ELSE IF ~IsNumber(fetch.price) \/ fetch.price.v < 0
             THEN [outcome |-> "ValidationError", cart |-> c]
        ELSE IF fetch.stock < 0 THEN [outcome |-> "ValidationError", cart |-> c]
        ELSE IF AddExceedsStock(intended_qty, fetch.stock)
             THEN [outcome |-> "OutOfStock", cart |-> c]
        ELSE IF ~CartItemValid(new_item.unit_price, intended_qty)
             THEN [outcome |-> "ValidationError", cart |-> c]
        ELSE [outcome |-> "ok", cart |-> PutLine(c, p, new_item)]
CartAdd_LateCheck(c, cat, p, q) ==
    LET fetch == GetProduct(cat, p)
        intended_qty == ExistingQty(c, p) + q.v
        new_item == IF InCart(c, p)
                    THEN WithQty(LineOf(c, p), intended_qty)
                    ELSE CartItem(p, fetch.name, ToDecimal(fetch.price), intended_qty)
    IN  IF QtyInvalid(q) THEN [outcome |-> "ValidationError", cart |-> c]
        ELSE IF ~fetch.found THEN [outcome |-> "NotFound", cart |-> c]
        ELSE IF Strip(fetch.name) = <<>> THEN [outcome |-> "ValidationError", cart |-> c]
        ELSE IF ~IsNumber(fetch.price) \/ fetch.price.v < 0
             THEN [outcome |-> "ValidationError", cart |-> c]
        ELSE IF fetch.stock < 0 THEN [outcome |-> "ValidationError", cart |-> c]
        ELSE IF AddExceedsStock(intended_qty, fetch.stock)
             THEN [outcome |-> "OutOfStock", cart |-> PutLine(c, p, new_item)]
        ELSE IF ~CartItemValid(new_item.unit_price, intended_qty)
             THEN [outcome |-> "ValidationError", cart |-> c]
        ELSE [outcome |-> "ok", cart |-> PutLine(c, p, new_item)]
CartAdd(c, cat, p, q) ==
    LET fetch == GetProduct(cat, p)
        intended_qty == ExistingQty(c, p) + q.v
        new_item == IF InCart(c, p)
                    THEN WithQty(LineOf(c, p), intended_qty)
                    ELSE CartItem(p, fetch.name, ToDecimal(fetch.price), intended_qty)
    IN  IF QtyInvalid(q) THEN [outcome |-> "ValidationError", cart |-> c]
        ELSE IF ~fetch.found THEN [outcome |-> "NotFound", cart |-> c]
        ELSE IF Strip(fetch.name) = <<>> THEN [outcome |-> "ValidationError", cart |-> c]
        ELSE IF ~IsNumber(fetch.price) \/ fetch.price.v < 0
             THEN [outcome |-> "ValidationError", cart |-> c]
        ELSE IF fetch.stock < 0 THEN [outcome |-> "ValidationError", cart |-> c]
        ELSE IF AddExceedsStock(intended_qty, fetch.stock)
             THEN [outcome |-> "OutOfStock", cart |-> c]
        ELSE IF ~CartItemValid(new_item.unit_price, intended_qty)
             THEN [outcome |-> "ValidationError", cart |-> c]
        ELSE [outcome |-> "ok", cart |-> PutLine(c, p, new_item)]

\* Cart.remove(product_id)
CartRemove_Mut(c, p) == [outcome |-> "ok", cart |-> DelLine(c, p)]
CartRemove(c, p) ==
    IF ~InCart(c, p) THEN [outcome |-> "NotInCart", cart |-> c]
    ELSE [outcome |-> "ok", cart |-> DelLine(c, p)]

\* if qty == 0: the removal branch of update_qty, taken before qty is validated
IsZeroQty_Mut(q) == FALSE
IsZeroQty(q) == q.v = 0

\* if qty > existing_qty: only then update_qty consults the catalogue
IsIncrease_Never(qty, existing_qty) == FALSE
IsIncrease_Always(qty, existing_qty) == TRUE
IsIncrease(qty, existing_qty) == qty > existing_qty

\* if qty > stock: raise, in update_qty
UpdateExceedsStock_Mut(qty, stock) == qty > stock + 1
UpdateExceedsStock_Never(qty, stock) == FALSE
UpdateExceedsStock(qty, stock) == qty > stock

\* Cart.update_qty(product_id, qty)
CartUpdateQty(c, cat, p, q) ==
    LET fetch == GetProduct(cat, p)
        existing_qty == LineOf(c, p).qty
    IN  IF ~InCart(c, p) THEN [outcome |-> "NotInCart", cart |-> c]
        ELSE IF IsZeroQty(q) THEN CartRemove(c, p)
        ELSE IF QtyInvalid(q) THEN [outcome |-> "ValidationError", cart |-> c]
        ELSE IF q.v = existing_qty THEN [outcome |-> "ok", cart |-> c]
        ELSE IF IsIncrease(q.v, existing_qty) /\ ~fetch.found
             THEN [outcome |-> "NotFound", cart |-> c]
        ELSE IF IsIncrease(q.v, existing_qty) /\ fetch.stock < 0
             THEN [outcome |-> "ValidationError", cart |-> c]
        ELSE IF IsIncrease(q.v, existing_qty) /\ UpdateExceedsStock(q.v, fetch.stock)
             THEN [outcome |-> "OutOfStock", cart |-> c]
        ELSE IF ~CartItemValid(LineOf(c, p).unit_price, q.v)
             THEN [outcome |-> "ValidationError", cart |-> c]
        ELSE [outcome |-> "ok", cart |-> PutLine(c, p, WithQty(LineOf(c, p), q.v))]

\* what a logger does when Cart._log calls it; without a logger nothing is called
LoggerMoves(l) == IF l = "none" THEN {"none"} ELSE {"returns", "raises"}

\* Cart._log as its caller sees it: try: self._logger(...) except Exception: pass
CartLog_Propagates(outcome, lg) == IF lg = "raises" THEN "LoggerError" ELSE outcome
CartLog(outcome, lg) == outcome

\* _log is the last statement of add, update_qty and remove; of their
\* successful paths only update_qty's early return on an unchanged qty ends
\* before it
LogReached(r, c) == r.outcome = "ok" /\ r.cart # c

\* the outcome of a cart call and the logger's part in it
Logged(r, c, lg) ==
    IF LogReached(r, c)
    THEN [outcome |-> CartLog(r.outcome, lg), logger |-> lg]
    ELSE [outcome |-> r.outcome, logger |-> "none"]

\* Cart.clear()
CartClear_Mut(c) == c
CartClear_One(c) == IF c = <<>> THEN c ELSE Tail(c)
CartClear_Zeroed(c) == [i \in 1..Len(c) |-> [c[i] EXCEPT !.qty = 0]]
CartClear(c) == <<>>

\* --------------------------------------------------------- ShippingPolicy
\* ShippingPolicy.cost_for(cart, address): the address is not consulted
CostFor_Strict(pol, c, address) ==
    IF pol.free_over.t # "NoneType" /\ CartSubtotal(c) > pol.free_over.v
    THEN 0
    ELSE pol.flat_rate
CostFor_ByAddress(pol, c, address) ==
    IF address.postcode = <<"3", "0", "0", "0">> THEN 0
    ELSE IF pol.free_over.t # "NoneType" /\ CartSubtotal(c) >= pol.free_over.v
    THEN 0
    ELSE pol.flat_rate
CostFor(pol, c, address) ==
    IF pol.free_over.t # "NoneType" /\ CartSubtotal(c) >= pol.free_over.v
    THEN 0
    ELSE pol.flat_rate

\* ---------------------------------------------------------------- Address
IsDigit(ch) == ch \in {"0", "1", "2", "3", "4", "5", "6", "7", "8", "9"}

\* Address(street, city, state, postcode): the raw values are stored, none is
\* checked
AddressNew(street, city, state, postcode) ==
    [street |-> street, city |-> city, state |-> state, postcode |-> postcode]

\* Address.validate(): None when valid, else a message
AddressValidate_NoStrip(a) ==
    IF a.street = <<>> THEN PyStr("Street address required")
    ELSE IF a.city = <<>> THEN PyStr("City required")
    ELSE IF a.state = <<>> THEN PyStr("State required")
    ELSE IF Len(a.postcode) # 4 \/ \E i \in 1..Len(a.postcode) : ~IsDigit(a.postcode[i])
         THEN PyStr("Postcode must be 4 digits")
    ELSE NoneMsg
AddressValidate(a) ==
    IF Strip(a.street) = <<>> THEN PyStr("Street address required")
    ELSE IF Strip(a.city) = <<>> THEN PyStr("City required")
    ELSE IF Strip(a.state) = <<>> THEN PyStr("State required")
    ELSE IF Len(a.postcode) # 4 \/ \E i \in 1..Len(a.postcode) : ~IsDigit(a.postcode[i])
         THEN PyStr("Postcode must be 4 digits")
    ELSE NoneMsg

\* ----------------------------------------------------------- PaymentService
\* PaymentService.charge(order_id, amount); gw_ret is what an injected
\* gateway answers when it is asked
\* gateway_calls lists the calls made on the gateway, each with its answer
ChargeResult(success, message, gateway_calls) ==
    [success |-> success, message |-> message, gateway_calls |-> gateway_calls]

PaymentCharge_NoAmountCheck(gw, order_id, amount, gw_ret) ==
    IF ~IsStr(order_id) \/ Strip(order_id.v) = <<>>
    THEN ChargeResult(PyBool(FALSE), PyStr("invalid order_id"), <<>>)
    ELSE IF amount.t # "Decimal"
    THEN ChargeResult(PyBool(FALSE), PyStr("amount must be a Decimal"), <<>>)
    ELSE IF gw # "none"
    THEN ChargeResult(gw_ret.success, gw_ret.message,
                      <<[order_id |-> order_id, amount |-> amount, answer |-> gw_ret]>>)
    ELSE ChargeResult(PyBool(TRUE), PyStr("Payment approved for order"), <<>>)
PaymentCharge_Coerce(gw, order_id, amount, gw_ret) ==
    IF ~IsStr(order_id) \/ Strip(order_id.v) = <<>>
    THEN ChargeResult(PyBool(FALSE), PyStr("invalid order_id"), <<>>)
    ELSE IF amount.t # "Decimal"
    THEN ChargeResult(PyBool(FALSE), PyStr("amount must be a Decimal"), <<>>)
    ELSE IF amount.v < 0
    THEN ChargeResult(PyBool(FALSE), PyStr("amount cannot be negative"), <<>>)
    ELSE IF gw # "none"
    THEN ChargeResult(PyBool(Truthy(gw_ret.success)), gw_ret.message,
                      <<[order_id |-> order_id, amount |-> amount, answer |-> gw_ret]>>)
    ELSE ChargeResult(PyBool(TRUE), PyStr("Payment approved for order"), <<>>)
PaymentCharge(gw, order_id, amount, gw_ret) ==
    IF ~IsStr(order_id) \/ Strip(order_id.v) = <<>>
    THEN ChargeResult(PyBool(FALSE), PyStr("invalid order_id"), <<>>)
    ELSE IF amount.t # "Decimal"
    THEN ChargeResult(PyBool(FALSE), PyStr("amount must be a Decimal"), <<>>)
    ELSE IF amount.v < 0
    THEN ChargeResult(PyBool(FALSE), PyStr("amount cannot be negative"), <<>>)
    ELSE IF gw # "none"
    THEN ChargeResult(gw_ret.success, gw_ret.message,
                      <<[order_id |-> order_id, amount |-> amount, answer |-> gw_ret]>>)
    ELSE ChargeResult(PyBool(TRUE), PyStr("Payment approved for order"), <<>>)

\* ------------------------------------------------------- OrderItem, Order
\* the checks of OrderItem.__init__
OrderItemValid(p, name, unit_price, qty) ==
    /\ Strip(p) # <<>>
    /\ Strip(name) # <<>>
    /\ unit_price >= 0
    /\ qty >= 1

\* OrderItem(product_id, name, unit_price, qty): id and name are stored stripped
OrderItem(p, name, unit_price, qty) ==
    [product_id |-> Strip(p), name |-> Strip(name), unit_price |-> unit_price, qty |-> qty]

\* the checks of Order.__init__
OrderValid_NoTotalCheck(id, items, shipping, total) ==
    /\ id # 0
    /\ Len(items) # 0
    /\ shipping >= 0
OrderValid_ZeroTotal(id, items, shipping, total) ==
    /\ id # 0
    /\ Len(items) # 0
    /\ shipping >= 0
    /\ total >= 0
OrderValid(id, items, shipping, total) ==
    /\ id # 0
    /\ Len(items) # 0
    /\ shipping >= 0
    /\ total > 0

\* order.id as the str that is handed to charge()
IdStr(id) == PyStr(<<ToString(id)>>)

NoTime == [t |-> "NoneType", v |-> 0]
Time(n) == [t |-> "datetime", v |-> n]

\* Order(id, items, address, shipping, total, status) built at clock reading t
Order_OneId(id, items, address, shipping, total, status, t) ==
    [id |-> 1, items |-> items, address |-> address, shipping |-> shipping,
     total |-> total, status |-> status, created_at |-> Time(t), paid_at |-> NoTime]
Order(id, items, address, shipping, total, status, t) ==
    [id |-> id, items |-> items, address |-> address, shipping |-> shipping,
     total |-> total, status |-> status, created_at |-> Time(t), paid_at |-> NoTime]

\* the guard of Order.mark_paid()
CanMarkPaid_Always(o) == TRUE
CanMarkPaid(o) == o.status = "PENDING"

\* Order.mark_paid() at clock reading t
MarkPaid_Skip(o, t) == o
MarkPaid_NoStamp(o, t) == [o EXCEPT !.status = "PAID"]
MarkPaid(o, t) == [o EXCEPT !.status = "PAID", !.paid_at = Time(t)]

\* Order.calculate_subtotal()
CalculateSubtotal(o) == SumSubtotals(o.items)

\* ---------------------------------------------------------- CheckoutService
\* if addr_errors: any truthy return of validate() is a problem
Reports_Mut(addr_errors) == FALSE
Reports(addr_errors) == addr_errors # NoneMsg

\* total = subtotal + shipping
TotalOf_Mut(subtotal, shipping) == subtotal
TotalOf_Doubled(subtotal, shipping) == subtotal + shipping + shipping
TotalOf(subtotal, shipping) == subtotal + shipping

\* CheckoutService.compute_totals(address)
ComputeTotals_Restock(c, pol, address) ==
    LET subtotal == CartSubtotal(c)
        shipping == CostFor(pol, c, address)
        total == TotalOf(subtotal, shipping)
    IN  IF IsEmpty(c) THEN [outcome |-> "EmptyCart", totals |-> <<0, 0, 0>>]
        ELSE IF Reports(AddressValidate(address))
             THEN [outcome |-> "InvalidAddress", totals |-> <<0, 0, 0>>]
        ELSE IF \E i \in 1..Len(c) : c[i].qty > GetProduct(catalogue, c[i].product_id).stock
             THEN [outcome |-> "OutOfStock", totals |-> <<0, 0, 0>>]
        ELSE IF total < 0 THEN [outcome |-> "ValidationError", totals |-> <<0, 0, 0>>]
        ELSE [outcome |-> "ok", totals |-> <<subtotal, shipping, total>>]
ComputeTotals(c, pol, address) ==
    LET subtotal == CartSubtotal(c)
        shipping == CostFor(pol, c, address)
        total == TotalOf(subtotal, shipping)
    IN  IF IsEmpty(c) THEN [outcome |-> "EmptyCart", totals |-> <<0, 0, 0>>]
        ELSE IF Reports(AddressValidate(address))
             THEN [outcome |-> "InvalidAddress", totals |-> <<0, 0, 0>>]
        ELSE IF total < 0 THEN [outcome |-> "ValidationError", totals |-> <<0, 0, 0>>]
        ELSE [outcome |-> "ok", totals |-> <<subtotal, shipping, total>>]

\* the list comprehension of _create_order_from_cart: one OrderItem per line
OrderItemsOf(c) ==
    [i \in 1..Len(c) |-> OrderItem(c[i].product_id, c[i].name, c[i].unit_price, c[i].qty)]

\* status="PENDING": the status _create_order_from_cart gives a new order
InitialStatus_Mut == "PAID"
InitialStatus == "PENDING"

\* if order.total != total: the consistency check of place_order
TotalsDiffer_Mut(order_total, total) == FALSE
TotalsDiffer_Below(order_total, total) == order_total < total
TotalsDiffer(order_total, total) == order_total # total

\* the (bool, str) check on what charge() returned
ConformingReturn_Mut(success, message) == IsBool(success)
ConformingReturn(success, message) == IsBool(success) /\ IsStr(message)

\* CheckoutService._create_order_from_cart(cart, address, shipping)
CreateOrderFromCart(c, address, shipping, order_id, t) ==
    LET lines == CartItems(c)
        order_items == OrderItemsOf(lines)
        subtotal == SumSubtotals(order_items)
        total == subtotal + shipping
    IN  IF \E i \in 1..Len(lines) :
              ~OrderItemValid(lines[i].product_id, lines[i].name,
                              lines[i].unit_price, lines[i].qty)
        THEN [outcome |-> "ValidationError"]
        ELSE IF ~OrderValid(order_id, order_items, shipping, total)
        THEN [outcome |-> "OrderInvalid"]
        ELSE [outcome |-> "ok",
              order |-> Order(order_id, order_items, address, shipping, total, InitialStatus, t)]

\* ---------------------------------------------------------------- results
NoTotals == <<0, 0, 0>>
NoMessage == PyStr("")

NoArgs == <<>>

\* existing_qty is the local of that name in add and update_qty, 0 when the
\* call ended before reading it; logger is what the cart's logger did when
\* the call reached _log ("none" when it was not called); arg and value are the arguments and the
\* return value of a call made on a collaborator directly, and gateway_calls
\* the calls that call made on the injected gateway
Ret(op, outcome) ==
    [op |-> op, outcome |-> outcome,
     order_id |-> 0, message |-> NoMessage, totals |-> NoTotals, existing_qty |-> 0,
     arg |-> NoArgs, value |-> NoneMsg, gateway_calls |-> <<>>, logger |-> "none"]

\* place_order raised: the kind of the exception
Raised(outcome) == Ret("place_order", outcome)

\* place_order returned (order.id, message)
Returned(order_id, message) ==
    [Ret("place_order", "ok") EXCEPT !.order_id = order_id, !.message = message]

NoFrame == [address |-> GoodAddress, cart0 |-> <<>>, totals |-> NoTotals, order |-> 0,
            success |-> PyBool(FALSE), message |-> NoMessage]

\* ------------------------------------------------------------------- Init
InitCatalogue == [p \in Products |-> IF p = P1 THEN Record(p, 1, 2)
                                     ELSE Record(p, 0, 1)]

Init ==
    /\ catalogue = InitCatalogue
    /\ cart = <<>>
    /\ policy \in Policies
    /\ gateway \in {"none", "injected"}
    /\ orders = <<>>
    /\ charges = <<>>
    /\ now = 0
    /\ pc = "idle"
    /\ po = NoFrame
    /\ ret = Ret("none", "ok")
    /\ held = NoList
    /\ logger = "none"

\* ----------------------------------------------------------- cart actions
Add(p, q) ==
    LET r == CartAdd(cart, catalogue, p, q)
    IN  /\ pc = "idle"
        /\ UNCHANGED <<catalogue, logger, checkout_vars>>
        /\ cart' = r.cart
        /\ held' = HeldAfter(held, cart')
        /\ \E lg \in LoggerMoves(logger) :
              ret' = [Ret("add", Logged(r, cart, lg).outcome) EXCEPT
                         !.logger = Logged(r, cart, lg).logger,
                         !.existing_qty = IF r.outcome \in {"ok", "OutOfStock"}
                                          THEN ExistingQty(cart, p) ELSE 0]

UpdateQty(p, q) ==
    LET r == CartUpdateQty(cart, catalogue, p, q)
    IN  /\ pc = "idle"
        /\ cart' = r.cart
        /\ held' = HeldAfter(held, cart')
        /\ \E lg \in LoggerMoves(logger) :
              ret' = [Ret("update_qty", Logged(r, cart, lg).outcome) EXCEPT
                         !.logger = Logged(r, cart, lg).logger,
                         !.existing_qty = IF InCart(cart, p) /\ q.v # 0 /\ ~QtyInvalid(q)
                                          THEN ExistingQty(cart, p) ELSE 0]
        /\ UNCHANGED <<catalogue, logger, checkout_vars>>

Remove(p) ==
    LET r == CartRemove(cart, p)
    IN  /\ pc = "idle"
        /\ cart' = r.cart
        /\ held' = HeldAfter(held, cart')
        /\ \E lg \in LoggerMoves(logger) :
              ret' = [Ret("remove", Logged(r, cart, lg).outcome) EXCEPT
                         !.logger = Logged(r, cart, lg).logger]
        /\ UNCHANGED <<catalogue, logger, checkout_vars>>

Clear ==
    /\ pc = "idle"
    /\ cart' = CartClear(cart)
    /\ held' = HeldAfter(held, cart')
    /\ ret' = Ret("clear", "ok")
    /\ UNCHANGED <<catalogue, logger, checkout_vars>>

\* items = cart.items(): the caller keeps the list it is handed
ItemsCall ==
    /\ pc = "idle"
    /\ held' = ItemsReturn(cart)
    /\ ret' = Ret("items", "ok")
    /\ UNCHANGED <<catalogue, logger, cart, checkout_vars>>

\* what a caller can do to a list: append an element, drop the last, reverse
ListEdits == {"append", "pop", "reverse"}

EditList(l, m) ==
    IF m = "append" THEN Append(l, CartItem(P1, NameOf(P1), 0, 1))
    ELSE IF m = "pop" THEN SubSeq(l, 1, Len(l) - 1)
    ELSE [i \in 1..Len(l) |-> l[Len(l) + 1 - i]]

\* the caller edits the list it holds; the cart's storage changes with it
\* only when the two are one object
CallerEdits(m) ==
    /\ pc = "idle"
    /\ m = "append" => Len(held.v) < Cardinality(Products)
    /\ m = "pop" => Len(held.v) > 0
    /\ held' = [held EXCEPT !.v = EditList(held.v, m)]
    /\ cart' = IF held.shared THEN held'.v ELSE cart
    /\ UNCHANGED <<catalogue, logger, checkout_vars, ret>>

\* ------------------------------------------------- calls on collaborators
\* shipping_policy.cost_for(cart, address), called on its own
CostForCall(address) ==
    /\ pc = "idle"
    /\ ret' = [Ret("cost_for", "ok") EXCEPT !.arg = address,
                                            !.value = PyDecimal(CostFor(policy, cart, address))]
    /\ UNCHANGED <<catalogue, logger, cart, held, checkout_vars>>

\* payment_service.charge(order_id, amount), called on its own
ChargeCall(order_id, amount, gw_ret) ==
    LET r == PaymentCharge(gateway, order_id, amount, gw_ret)
    IN  /\ pc = "idle"
        /\ ret' = [Ret("charge", "ok") EXCEPT
                      !.arg = <<order_id, amount>>,
                      !.value = [success |-> r.success, message |-> r.message],
                      !.gateway_calls = r.gateway_calls]
        /\ UNCHANGED <<catalogue, logger, cart, held, checkout_vars>>

\* order.mark_paid(), called on its own on the i-th order constructed
MarkPaidCall(i) ==
    /\ pc = "idle"
    /\ i \in 1..Len(orders)
    /\ IF CanMarkPaid(orders[i])
       THEN /\ orders' = [orders EXCEPT ![i] = MarkPaid(@, now + 1)]
            /\ now' = now + 1
            /\ ret' = [Ret("mark_paid", "ok") EXCEPT !.order_id = orders[i].id]
       ELSE /\ ret' = [Ret("mark_paid", "InvalidStateTransition") EXCEPT
                          !.order_id = orders[i].id]
            /\ UNCHANGED <<orders, now>>
    /\ UNCHANGED <<catalogue, logger, cart, held, policy, gateway, charges, pc, po>>

\* Address(street, city, state, postcode).validate()
ValidateCall(street, city, state, postcode) ==
    LET a == AddressNew(street, city, state, postcode)
    IN  /\ pc = "idle"
        /\ ret' = [Ret("validate", "ok") EXCEPT !.arg = a, !.value = AddressValidate(a)]
        /\ UNCHANGED <<catalogue, logger, cart, held, checkout_vars>>

\* ------------------------------------------------------ catalogue actions
\* Catalogue.update_product(product_id, price=..., stock=...)
UpdateProduct(p, price, stock) ==
    /\ pc = "idle"
    /\ catalogue[p].found
    /\ catalogue' = [catalogue EXCEPT ![p] = Record(p, price, stock)]
    /\ ret' = Ret("update_product", "ok")
    /\ UNCHANGED <<cart, held, logger, checkout_vars>>

\* Catalogue.delete_product(product_id)
DeleteProduct(p) ==
    /\ pc = "idle"
    /\ catalogue[p].found
    /\ catalogue' = [catalogue EXCEPT ![p] = Absent]
    /\ ret' = Ret("delete_product", "ok")
    /\ UNCHANGED <<cart, held, logger, checkout_vars>>

\* Catalogue.add_product(product_id, name, price, stock, type_id)
AddProduct(p, price, stock) ==
    /\ pc = "idle"
    /\ ~catalogue[p].found
    /\ catalogue' = [catalogue EXCEPT ![p] = Record(p, price, stock)]
    /\ ret' = Ret("add_product", "ok")
    /\ UNCHANGED <<cart, held, logger, checkout_vars>>

\* ------------------------------------------------------- checkout actions
\* CheckoutService.compute_totals(address), called on its own
ComputeTotalsCall(address) ==
    LET r == ComputeTotals(cart, policy, address)
    IN  /\ pc = "idle"
        /\ UNCHANGED <<catalogue, logger, cart, held, checkout_vars>>
        /\ ret' = [Ret("compute_totals", r.outcome) EXCEPT !.totals = r.totals]

\* place_order, step 1: compute_totals(address)
PlaceOrderStart(address) ==
    LET r == ComputeTotals(cart, policy, address)
    IN  /\ pc = "idle"
        /\ UNCHANGED <<catalogue, logger, cart, held, policy, gateway, orders, charges, now>>
        /\ IF r.outcome = "ok"
           THEN /\ pc' = "totals"
                /\ po' = [NoFrame EXCEPT !.address = address, !.cart0 = cart,
                                         !.totals = r.totals]
                /\ UNCHANGED ret
           ELSE /\ ret' = Raised(r.outcome)
                /\ UNCHANGED <<pc, po>>

\* place_order is called while fewer than MaxOrders orders have been built
PlaceOrderTotals(address) ==
    /\ pc = "idle"
    /\ Len(orders) < MaxOrders
    /\ PlaceOrderStart(address)

\* place_order, steps 2 and 3: _create_order_from_cart, then the totals check
PlaceOrderCreate ==
    LET id == Len(orders) + 1
        r == CreateOrderFromCart(cart, po.address, po.totals[2], id, now + 1)
    IN  /\ pc = "totals"
        /\ IF r.outcome # "ok"
           THEN /\ ret' = Raised(r.outcome)
                /\ pc' = "idle"
                /\ po' = NoFrame
                /\ UNCHANGED <<orders, now>>
           ELSE /\ orders' = Append(orders, r.order)
                /\ now' = now + 1
                /\ IF TotalsDiffer(r.order.total, po.totals[3])
                   THEN /\ ret' = Raised("OrderTotalMismatch")
                        /\ pc' = "idle"
                        /\ po' = NoFrame
                   ELSE /\ pc' = "created"
                        /\ po' = [po EXCEPT !.order = id]
                        /\ UNCHANGED ret
        /\ UNCHANGED <<catalogue, logger, cart, held, policy, gateway, charges>>

\* place_order, step 4: payment_service.charge(order.id, total)
PlaceOrderCharge(gw_ret) ==
    LET r == PaymentCharge(gateway, IdStr(orders[po.order].id), PyDecimal(po.totals[3]), gw_ret)
    IN  /\ pc = "created"
        /\ charges' = Append(charges, [order_id |-> orders[po.order].id,
                                       amount |-> po.totals[3],
                                       success |-> r.success, message |-> r.message])
        /\ po' = [po EXCEPT !.success = r.success, !.message = r.message]
        /\ pc' = "charged"
        /\ UNCHANGED <<catalogue, logger, cart, held, policy, gateway, orders, now, ret>>

\* place_order, step 5: the (bool, str) check, then mark_paid or the failure return
PlaceOrderSettle ==
    /\ pc = "charged"
    /\ IF ~ConformingReturn(po.success, po.message)
       THEN /\ ret' = Raised("ContractViolation")
            /\ pc' = "idle"
            /\ po' = NoFrame
            /\ UNCHANGED <<orders, now>>
       ELSE IF Truthy(po.success)
       THEN IF CanMarkPaid(orders[po.order])
            THEN /\ orders' = [orders EXCEPT ![po.order] = MarkPaid(@, now + 1)]
                 /\ now' = now + 1
                 /\ pc' = "paid"
                 /\ UNCHANGED <<po, ret>>
            ELSE /\ ret' = Raised("InvalidStateTransition")
                 /\ pc' = "idle"
                 /\ po' = NoFrame
                 /\ UNCHANGED <<orders, now>>
       ELSE /\ ret' = Returned(orders[po.order].id, po.message)
            /\ pc' = "idle"
            /\ po' = NoFrame
            /\ UNCHANGED <<orders, now>>
    /\ UNCHANGED <<catalogue, logger, cart, held, policy, gateway, charges>>

\* place_order, step 6: cart.clear() and the success return
PlaceOrderClear ==
    /\ pc = "paid"
    /\ cart' = CartClear(cart)
    /\ held' = HeldAfter(held, cart')
    /\ ret' = Returned(orders[po.order].id, po.message)
    /\ pc' = "idle"
    /\ po' = NoFrame
    /\ UNCHANGED <<catalogue, logger, policy, gateway, orders, charges, now>>

\* a callable attached as CheckoutService._logger runs inside compute_totals'
\* _log call, between the totals and the order construction, and may use the cart
LoggerHook ==
    /\ pc = "totals"
    /\ \E p \in Products, q \in QtyInputs :
          \/ cart' = CartAdd(cart, catalogue, p, q).cart
          \/ cart' = CartUpdateQty(cart, catalogue, p, q).cart
    /\ cart' # cart
    /\ held' = HeldAfter(held, cart')
    /\ UNCHANGED <<catalogue, logger, checkout_vars, ret>>

\* ---------------------------------------------------------- specifications
CartNext ==
    \/ \E p \in Products, q \in QtyInputs : Add(p, q)
    \/ \E p \in Products, q \in QtyInputs : UpdateQty(p, q)
    \/ \E p \in Products : Remove(p)
    \/ Clear

\* the calls of a shopper who passes well-typed quantities
ShopperNext ==
    \/ \E p \in Products, q \in ShopperQtys : Add(p, q)
    \/ \E p \in Products, q \in ShopperQtys : UpdateQty(p, q)
    \/ \E p \in Products : Remove(p)
    \/ Clear

\* the administrator's changes to the product under management
CatalogueNext ==
    \/ \E p \in Managed, price \in Prices, stock \in Stocks : UpdateProduct(p, price, stock)
    \/ \E p \in Managed : DeleteProduct(p)
    \/ \E p \in Managed, price \in Prices, stock \in Stocks : AddProduct(p, price, stock)

CheckoutNext ==
    \/ \E a \in Addresses : ComputeTotalsCall(a)
    \/ \E a \in Addresses : PlaceOrderTotals(a)
    \/ PlaceOrderCreate
    \/ \E g \in GatewayReturns : PlaceOrderCharge(g)
    \/ PlaceOrderSettle
    \/ PlaceOrderClear

\* the single-threaded checkout session: cart and checkout calls, one at a time
Next == ShopperNext \/ CheckoutNext

Spec == Init /\ [][Next]_vars

\* the cart against a catalogue that an administrator changes meanwhile
NextCart == CartNext \/ CatalogueNext

\* bootstrap_system: ShippingPolicy() and PaymentService() with their defaults
InitCart ==
    /\ Init
    /\ policy = [flat_rate |-> 1, free_over |-> NoneDec]
    /\ gateway = "none"

SpecCart == InitCart /\ [][NextCart]_vars

\* the same program with a logger attached to the checkout service
NextHook == ShopperNext \/ CheckoutNext \/ LoggerHook

SpecHook == Init /\ [][NextHook]_vars

\* the collaborators of the checkout, each called on its own: any shipping
\* configuration, with or without a gateway
InitUnits ==
    /\ catalogue = InitCatalogue
    /\ cart = <<>>
    /\ policy \in PolicyInputs
    /\ gateway \in {"none", "injected"}
    /\ orders = <<>>
    /\ charges = <<>>
    /\ now = 0
    /\ pc = "idle"
    /\ po = NoFrame
    /\ ret = Ret("none", "ok")
    /\ held = NoList
    /\ logger = "none"

NextUnits ==
    \/ ShopperNext
    \/ \E a \in Addresses : CostForCall(a)
    \/ \E o \in OrderIdInputs, a \in AmountInputs, g \in GatewayReturns : ChargeCall(o, a, g)

SpecUnits == InitUnits /\ [][NextUnits]_vars

\* the checkout session of a caller that fills the cart, places orders, and
\* calls mark_paid itself on the orders it was returned
InitOrder ==
    /\ Init
    /\ policy = [flat_rate |-> 1, free_over |-> NoneDec]
    /\ gateway = "injected"

NextOrder ==
    \/ \E p \in Products, q \in ShopperQtys : Add(p, q)
    \/ \E p \in Products : Remove(p)
    \/ PlaceOrderTotals(GoodAddress)
    \/ PlaceOrderCreate
    \/ \E g \in GatewayReturns : PlaceOrderCharge(g)
    \/ PlaceOrderSettle
    \/ PlaceOrderClear
    \/ \E i \in 1..MaxOrders : MarkPaidCall(i)

SpecOrder == InitOrder /\ [][NextOrder]_vars

\* Address on its own: every address the field values make
NextAddress ==
    \E street \in StreetInputs, city \in NameInputs, state \in NameInputs,
       postcode \in PostcodeInputs : ValidateCall(street, city, state, postcode)

SpecAddress == InitCart /\ [][NextAddress]_vars

\* Cart(catalogue, logger): the cart with a logger attached
InitLogger ==
    /\ catalogue = InitCatalogue
    /\ cart = <<>>
    /\ policy = [flat_rate |-> 1, free_over |-> NoneDec]
    /\ gateway = "none"
    /\ orders = <<>>
    /\ charges = <<>>
    /\ now = 0
    /\ pc = "idle"
    /\ po = NoFrame
    /\ ret = Ret("none", "ok")
    /\ held = NoList
    /\ logger = "attached"

SpecLogger == InitLogger /\ [][NextCart]_vars

\* the checkout session while an administrator restocks the managed product
RestockProduct(p, stock) == UpdateProduct(p, catalogue[p].price.v, stock)

NextStock ==
    \/ \E p \in Products, q \in ShopperQtys : Add(p, q)
    \/ \E p \in Managed, stock \in Stocks : RestockProduct(p, stock)
    \/ PlaceOrderTotals(GoodAddress)
    \/ PlaceOrderCreate
    \/ \E g \in GatewayReturns : PlaceOrderCharge(g)
    \/ PlaceOrderSettle
    \/ PlaceOrderClear

SpecStock == InitOrder /\ [][NextStock]_vars

\* the checkout session of a customer who checks out again after a checkout:
\* one more place_order than MaxOrders may build an order
InitRetry ==
    /\ Init
    /\ policy = [flat_rate |-> 1, free_over |-> NoneDec]

PlaceOrderAgain(address) ==
    /\ Len(orders) < MaxOrders + 1
    /\ PlaceOrderStart(address)

NextRetry ==
    \/ \E p \in Products, q \in ShopperQtys : Add(p, q)
    \/ PlaceOrderAgain(GoodAddress)
    \/ PlaceOrderCreate
    \/ \E g \in GatewayReturns : PlaceOrderCharge(g)
    \/ PlaceOrderSettle
    \/ PlaceOrderClear

\* the shopper's session over a catalogue nobody edits: every cart call with
\* every quantity, and checkouts
NextStatic ==
    \/ CartNext
    \/ PlaceOrderTotals(GoodAddress)
    \/ PlaceOrderCreate
    \/ \E g \in GatewayReturns : PlaceOrderCharge(g)
    \/ PlaceOrderSettle
    \/ PlaceOrderClear

SpecStatic == InitCart /\ [][NextStatic]_vars

SpecRetry == InitRetry /\ [][NextRetry]_vars

\* the session of a customer who checks out again after a paid checkout, with
\* every cart call in between; PaymentService() has no gateway
NextAgain ==
    \/ ShopperNext
    \/ PlaceOrderAgain(GoodAddress)
    \/ PlaceOrderCreate
    \/ \E g \in GatewayReturns : PlaceOrderCharge(g)
    \/ PlaceOrderSettle
    \/ PlaceOrderClear

SpecAgain == InitCart /\ [][NextAgain]_vars

\* the same session with a logger attached to the CheckoutService that uses the cart
NextRetryHook ==
    \/ \E p \in Managed, q \in ShopperQtys : Add(p, q)
    \/ PlaceOrderAgain(GoodAddress)
    \/ LoggerHook
    \/ PlaceOrderCreate
    \/ \E g \in GatewayReturns : PlaceOrderCharge(g)
    \/ PlaceOrderSettle
    \/ PlaceOrderClear

SpecRetryHook == InitRetry /\ [][NextRetryHook]_vars

\* a caller that reads the cart with items() and edits the lists it is handed
NextItems ==
    \/ ShopperNext
    \/ ItemsCall
    \/ \E m \in ListEdits : CallerEdits(m)

SpecItems == InitCart /\ [][NextItems]_vars

\* ------------------------------------------------------------------ claims
\* the order the running place_order built
Current == orders[po.order]

\* the total _create_order_from_cart would recompute from the cart as it is now
Recomputed == SumSubtotals(OrderItemsOf(cart)) + po.totals[2]

\* C1: success path of place_order. Once charge has returned (True, message),
\* the call marks the order PAID, then clears the cart and returns
\* (order.id, message) with the order PAID and the cart empty.
C1_SuccessPath ==
    [][/\ (pc = "charged" /\ po.success = PyBool(TRUE) /\ po.message.t = "str")
            => (pc' = "paid" /\ orders'[po.order].status = "PAID" /\ po' = po)
       /\ pc = "paid"
            => /\ po.success = PyBool(TRUE)
               /\ pc' = "idle"
               /\ ret' = Returned(Current.id, po.message)
               /\ orders'[po.order].status = "PAID"
               /\ cart' = <<>>]_vars

C1_Witness ==
    /\ pc = "idle"
    /\ ret.op = "place_order" /\ ret.outcome = "ok"
    /\ ret.order_id # 0 /\ orders[ret.order_id].status = "PAID"
    /\ ret.message \in {PyStr("Charged"), PyStr("Payment approved for order")}
    /\ cart = <<>>

\* C2: failure path of place_order. Once charge has returned (False, message),
\* the call returns (order.id, message) without raising, the order is still
\* PENDING and the cart holds the lines it held when place_order was called.
C2_FailurePath ==
    [][(pc = "charged" /\ po.success = PyBool(FALSE) /\ po.message.t = "str")
         => /\ pc' = "idle"
            /\ ret' = Returned(Current.id, po.message)
            /\ orders'[po.order].status = "PENDING"
            /\ po.cart0 # <<>>
            /\ cart' = po.cart0]_vars

C2_Witness ==
    /\ pc = "idle"
    /\ ret.op = "place_order" /\ ret.outcome = "ok"
    /\ ret.message = PyStr("Card declined")
    /\ ret.order_id # 0 /\ orders[ret.order_id].status = "PENDING"
    /\ Len(cart) = 2

\* C3: order lifecycle. A newly constructed order is PENDING; an order is only
\* ever PENDING or PAID; and an order is PAID only if charge has returned
\* success = True for its id.
C3_Lifecycle ==
    /\ [](\A i \in 1..Len(orders) :
            /\ orders[i].status \in {"PENDING", "PAID"}
            /\ orders[i].status = "PAID"
                 => \E j \in 1..Len(charges) :
                       /\ charges[j].order_id = orders[i].id
                       /\ charges[j].success = PyBool(TRUE))
    /\ [][Len(orders') > Len(orders)
            => orders'[Len(orders')].status = "PENDING"]_vars

C3_Witness ==
    \E i \in 1..Len(orders) :
        /\ orders[i].status = "PAID"
        /\ \E j \in 1..Len(charges) :
              charges[j].order_id = orders[i].id /\ charges[j].success = PyBool(TRUE)

\* C4: invalid address. When validate() reports a problem (it is asked only
\* when the cart has lines), compute_totals and place_order raise
\* InvalidAddress; no Order is constructed, charge is not invoked and the
\* cart is unchanged.
C4_InvalidAddress ==
    [][\A a \in Addresses :
          ((ComputeTotalsCall(a) \/ PlaceOrderTotals(a))
             /\ cart # <<>> /\ AddressValidate(a) # NoneMsg)
          => /\ ret'.outcome = "InvalidAddress"
             /\ pc' = "idle"
             /\ orders' = orders
             /\ charges' = charges
             /\ cart' = cart]_vars

C4_Witness ==
    /\ ret.op = "place_order" /\ ret.outcome = "InvalidAddress"
    /\ pc = "idle" /\ cart # <<>> /\ orders = <<>> /\ charges = <<>>

\* C5: empty cart. With no lines in the cart, compute_totals and place_order
\* raise EmptyCart whatever the address is; no Order is constructed and
\* charge is not invoked.
C5_EmptyCart ==
    [][\A a \in Addresses :
          (cart = <<>> /\ (ComputeTotalsCall(a) \/ PlaceOrderTotals(a)))
          => /\ ret'.outcome = "EmptyCart"
             /\ pc' = "idle"
             /\ orders' = orders
             /\ charges' = charges]_vars

C5_Witness ==
    /\ ret.op = "place_order" /\ ret.outcome = "EmptyCart"
    /\ pc = "idle" /\ cart = <<>> /\ orders = <<>> /\ charges = <<>>

C7_ContractViolation ==
    [][(pc = "charged" /\ (po.success.t # "bool" \/ po.message.t # "str"))
         => /\ pc' = "idle"
            /\ ret' = Raised("ContractViolation")
            /\ orders' = orders
            /\ Current.status = "PENDING"
            /\ cart' = cart /\ cart # <<>>]_vars

C7_Witness ==
    /\ pc = "idle"
    /\ ret = Raised("ContractViolation")
    /\ charges # <<>> /\ charges[Len(charges)].success = PyInt(1)
    /\ orders[Len(orders)].status = "PENDING"
    /\ cart # <<>>

\* C8: order snapshot round trip. The items of a newly constructed order
\* equal, field for field, the cart lines present when place_order was
\* called, and the items of an order never change afterwards.
C8_SnapshotRoundTrip ==
    [][/\ Len(orders') > Len(orders)
            => orders'[Len(orders')].items = po.cart0
       /\ \A i \in 1..Len(orders) : orders'[i].items = orders[i].items]_vars

\* C9: compute_totals on a cart with lines and a valid address returns
\* (subtotal, shipping, total) with subtotal = cart.subtotal(), shipping =
\* cost_for(cart, address), total = subtotal + shipping, and leaves the cart
\* unchanged; one line of 1 x 2 with flat rate 1 gives (2, 1, 3).
C9_ComputeTotals ==
    [][\A a \in Addresses :
          (ComputeTotalsCall(a) /\ cart # <<>> /\ AddressValidate(a) = NoneMsg)
          => /\ ret'.outcome = "ok"
             /\ ret'.totals[1] = CartSubtotal(cart)
             /\ ret'.totals[2] = CostFor(policy, cart, a)
             /\ ret'.totals[3] = ret'.totals[1] + ret'.totals[2]
             /\ (cart = <<CartItem(P1, <<"M">>, 1, 2)>>
                   /\ policy = [flat_rate |-> 1, free_over |-> NoneDec])
                  => ret'.totals = <<2, 1, 3>>
             /\ cart' = cart]_vars

C9_Witness ==
    /\ ret.op = "compute_totals" /\ ret.outcome = "ok"
    /\ ret.totals = <<2, 1, 3>>
    /\ cart = <<CartItem(P1, <<"M">>, 1, 2)>>

\* C10: Cart.add of a positive integer qty of a product the catalogue holds
\* raises OutOfStock exactly when the quantity already in the cart plus qty
\* exceeds the stock the catalogue reports at that call, and then the cart
\* is unchanged.
C10_AddStockCheck ==
    [][\A p \in Products, q \in QtyInputs :
          (q.t = "int" /\ q.v >= 1 /\ catalogue[p].found /\ Add(p, q))
          => /\ ret'.outcome = "OutOfStock"
                  <=> (IF InCart(cart, p) THEN LineOf(cart, p).qty ELSE 0) + q.v
                        > catalogue[p].stock
             /\ ret'.outcome = "OutOfStock" => cart' = cart]_vars

C10_Witness ==
    /\ ret.op = "add" /\ ret.outcome = "OutOfStock"
    /\ Len(cart) = 1
    /\ catalogue[cart[1].product_id].found
    /\ cart[1].qty = catalogue[cart[1].product_id].stock

\* the quantity the cart holds of a product, 0 without a line
QtyOf(c, p) == IF InCart(c, p) THEN LineOf(c, p).qty ELSE 0

\* the lines a cart holds for a product id
LinesOf(c, p) == {i \in 1..Len(c) : c[i].product_id = p}

\* C11: adding a product with q1 and then with q2 (q1 + q2 within stock)
\* leaves exactly one line for it, with qty = q1 + q2; the cart never holds
\* two lines for one product id.
C11_OneLinePerProduct ==
    /\ [](\A p \in Products : Cardinality(LinesOf(cart, p)) <= 1)
    /\ [][\A p \in Products, q \in QtyInputs :
            (Add(p, q) /\ q.t = "int" /\ q.v >= 1 /\ catalogue[p].found
               /\ QtyOf(cart, p) + q.v <= catalogue[p].stock)
            => /\ Cardinality(LinesOf(cart', p)) = 1
               /\ LineOf(cart', p).qty = QtyOf(cart, p) + q.v]_vars

C11_Witness ==
    /\ ret.op = "add" /\ ret.outcome = "ok" /\ ret.existing_qty >= 1
    /\ Len(cart) = 1
    /\ cart[1].qty > ret.existing_qty

\* C12: price snapshot. A line that stays in the cart keeps its unit_price
\* through every add, update_qty and catalogue change; a line that enters the
\* cart takes the price the catalogue holds at that call.
C12_PriceSnapshot ==
    [][\A p \in Products :
          /\ (InCart(cart, p) /\ InCart(cart', p))
               => LineOf(cart', p).unit_price = LineOf(cart, p).unit_price
          /\ (~InCart(cart, p) /\ InCart(cart', p))
               => /\ catalogue[p].found
                  /\ LineOf(cart', p).unit_price = catalogue[p].price.v]_vars

C12_Witness ==
    /\ ret.op = "add" /\ ret.outcome = "ok" /\ ret.existing_qty >= 1
    /\ Len(cart) = 1
    /\ catalogue[cart[1].product_id].found
    /\ catalogue[cart[1].product_id].price.v # cart[1].unit_price

\* C13 as stated: after every successful add, update_qty or remove, every
\* line's qty is within the stock the catalogue reports for its product at
\* that call.
C13_EveryLineWithinStock ==
    [][((\E p \in Products, q \in QtyInputs : Add(p, q) \/ UpdateQty(p, q))
          \/ (\E p \in Products : Remove(p)))
         /\ ret'.outcome = "ok" /\ cart' # cart
       => \A i \in 1..Len(cart') :
             catalogue[cart'[i].product_id].found
                => cart'[i].qty <= catalogue[cart'[i].product_id].stock]_vars

\* C13, amended: whenever a call makes a line or raises its qty, the product
\* is in the catalogue and the line's new qty is within the stock the
\* catalogue reports at that call.
C13_IncreaseWithinStock ==
    [][\A p \in Products :
          QtyOf(cart', p) > QtyOf(cart, p)
             => /\ catalogue[p].found
                /\ QtyOf(cart', p) <= catalogue[p].stock]_vars

C13_Witness ==
    /\ ret.op = "update_qty" /\ ret.outcome = "ok" /\ ret.existing_qty >= 1
    /\ Len(cart) = 1
    /\ cart[1].qty > ret.existing_qty
    /\ catalogue[cart[1].product_id].found
    /\ cart[1].qty = catalogue[cart[1].product_id].stock

\* C14: update_qty(id, 0) and remove(id) do the same. With a line for id both
\* succeed and leave the cart without that line and with every other line as
\* it was; without one both fail with NotInCart and leave the cart as it was.
C14_ZeroIsRemove ==
    [][\A p \in Products :
          (UpdateQty(p, PyInt(0)) \/ Remove(p))
          => IF InCart(cart, p)
             THEN /\ ret'.outcome = "ok"
                  /\ cart' = SelectSeq(cart, LAMBDA it : it.product_id # p)
                  /\ ~InCart(cart', p)
             ELSE /\ ret'.outcome = "NotInCart"
                  /\ cart' = cart]_vars

C14_Witness ==
    /\ ret.op = "update_qty" /\ ret.outcome = "ok" /\ ret.existing_qty = 0
    /\ Len(cart) = 1

\* C15 as stated: update_qty of a line to a qty above the stock the catalogue
\* now reports fails with OutOfStock and leaves the cart as it was.
C15_AboveStockFails ==
    [][\A p \in Products, q \in QtyInputs :
          (UpdateQty(p, q) /\ InCart(cart, p) /\ q.t = "int"
             /\ catalogue[p].found /\ q.v > catalogue[p].stock)
          => /\ ret'.outcome = "OutOfStock"
             /\ cart' = cart]_vars

\* C15, amended: update_qty of a line to a qty above the line's current qty
\* and above the stock the catalogue now reports fails with OutOfStock and
\* leaves the cart as it was.
C15_IncreaseAboveStockFails ==
    [][\A p \in Products, q \in QtyInputs :
          (UpdateQty(p, q) /\ InCart(cart, p) /\ q.t = "int"
             /\ catalogue[p].found /\ q.v > catalogue[p].stock
             /\ q.v > LineOf(cart, p).qty)
          => /\ ret'.outcome = "OutOfStock"
             /\ cart' = cart]_vars

C15_Witness ==
    /\ ret.op = "update_qty" /\ ret.outcome = "OutOfStock"
    /\ Len(cart) = 1
    /\ cart[1].qty = ret.existing_qty
    /\ catalogue[cart[1].product_id].found
    /\ cart[1].qty <= catalogue[cart[1].product_id].stock

\* C16: update_qty to a qty (>= 1) below the line's current qty succeeds
\* whatever the catalogue holds (lower stock, product deleted): the line takes
\* the new qty and nothing else changes; to the current qty it succeeds and
\* leaves the cart as it was.
C16_DecreaseNoLookup ==
    [][\A p \in Products, q \in QtyInputs :
          (UpdateQty(p, q) /\ InCart(cart, p) /\ q.t = "int" /\ q.v >= 1
             /\ q.v <= LineOf(cart, p).qty)
          => /\ ret'.outcome = "ok"
             /\ cart' = [i \in 1..Len(cart) |->
                           IF cart[i].product_id = p
                           THEN [cart[i] EXCEPT !.qty = q.v] ELSE cart[i]]
             /\ q.v = LineOf(cart, p).qty => cart' = cart]_vars

C16_Witness ==
    /\ ret.op = "update_qty" /\ ret.outcome = "ok"
    /\ Len(cart) = 1
    /\ cart[1].qty < ret.existing_qty
    /\ ~catalogue[cart[1].product_id].found

\* C17: remove(id) and update_qty(id, q), for any q, on an id without a line
\* fail with NotInCart and leave the cart as it was, on every such call.
C17_AbsentIdFails ==
    [][\A p \in Products, q \in QtyInputs :
          ((Remove(p) \/ UpdateQty(p, q)) /\ ~InCart(cart, p))
          => /\ ret'.outcome = "NotInCart"
             /\ cart' = cart]_vars

C17_Witness ==
    /\ ret.op = "remove" /\ ret.outcome = "NotInCart"
    /\ Len(cart) = 1

\* C18: a cart call that fails (add, update_qty or remove raising for an
\* invalid qty, a product missing from the catalogue, insufficient stock or a
\* product without a line) leaves every line of the cart as it was.
C18_FailureKeepsCart ==
    [][(((\E p \in Products, q \in QtyInputs : Add(p, q) \/ UpdateQty(p, q))
           \/ (\E p \in Products : Remove(p)))
          /\ ret'.outcome # "ok")
       => cart' = cart]_vars

C18_Witness ==
    /\ ret.op = "add" /\ ret.outcome = "NotFound"
    /\ Len(cart) = 2

\* C19: clear() succeeds from every cart and leaves it empty, and a clear()
\* of the cart it leaves gives the empty cart again.
C19_ClearEmpties ==
    [][Clear => /\ ret'.outcome = "ok"
                /\ cart' = <<>>
                /\ CartClear(cart') = <<>>]_vars

C19_Witness ==
    /\ ret.op = "clear" /\ ret.outcome = "ok"
    /\ cart = <<>>

\* C20: in every state add, update_qty, remove and clear can reach, every
\* line of the cart has qty >= 1; update_qty to 0 removes the line.
C20_QtyAtLeastOne ==
    \A i \in 1..Len(cart) : cart[i].qty >= 1

C20_Witness ==
    /\ ret.op = "update_qty" /\ ret.outcome = "ok" /\ ret.existing_qty = 0
    /\ cart = <<>>

\* the sum of unit_price * qty over the lines of c, written out line by line
LineSum(c) ==
    LET F[i \in 0..Len(c)] == IF i = 0 THEN 0 ELSE F[i - 1] + c[i].unit_price * c[i].qty
    IN  F[Len(c)]

\* C21: in every reachable state Cart.subtotal() is the sum of unit_price * qty
\* over the cart's lines, at the prices the lines captured, and zero for the
\* empty cart; a successful add of q units to an empty cart leaves a subtotal
\* of exactly that product's catalogue price times q.
C21_SubtotalIsLineSum ==
    /\ [](/\ CartSubtotal(cart) = LineSum(cart)
          /\ cart = <<>> => CartSubtotal(cart) = 0)
    /\ [][\A p \in Products, q \in QtyInputs :
             (Add(p, q) /\ cart = <<>> /\ ret'.outcome = "ok")
                => CartSubtotal(cart') = catalogue[p].price.v * q.v]_vars

C21_Witness ==
    /\ Len(cart) = 1
    /\ cart[1].qty = 2
    /\ catalogue[cart[1].product_id].found
    /\ catalogue[cart[1].product_id].price.v # cart[1].unit_price
    /\ CartSubtotal(cart) = 2 * cart[1].unit_price
    /\ CartSubtotal(cart) > 0

\* C22: Cart.items() hands out a snapshot. A caller's append, pop or reverse
\* of the list it was handed leaves the cart's lines as they were, and a step
\* that changes the cart's lines leaves a list handed out earlier as it was.
C22_ItemsSnapshot ==
    [][/\ \A m \in ListEdits : CallerEdits(m) => cart' = cart
       /\ cart' # cart => held' = held]_vars

C22_Witness ==
    /\ ret.op = "items"
    /\ cart # <<>>
    /\ held.v # cart
    /\ Len(held.v) > Len(cart)

\* C23: cost_for returns zero when free_over is configured and the cart's
\* subtotal is at or above it, and flat_rate otherwise, whatever address it is
\* given and whatever the grand total would be.
C23_ShippingRule ==
    ret.op = "cost_for" =>
        LET free == /\ policy.free_over.t = "Decimal"
                    /\ LineSum(cart) >= policy.free_over.v
        IN  ret.value = PyDecimal(IF free THEN 0 ELSE policy.flat_rate)

C23_Witness ==
    /\ ret.op = "cost_for"
    /\ policy.flat_rate > 0
    /\ LineSum(cart) > 0
    /\ policy.free_over = PyDecimal(LineSum(cart))
    /\ ret.value = PyDecimal(0)
    /\ ret.arg # GoodAddress

ChargedId == ret.arg[1]
ChargedAmount == ret.arg[2]

\* C25: charge fails fast. Called with an empty or blank order_id, or with a
\* negative amount, it returns (False, message) without raising and makes
\* no call on the injected gateway.
C25_ChargeFailsFast ==
    (/\ ret.op = "charge"
     /\ \/ IsStr(ChargedId) /\ Strip(ChargedId.v) = <<>>
        \/ ChargedAmount.v < 0)
       => /\ ret.outcome = "ok"
          /\ ret.value.success = PyBool(FALSE)
          /\ IsStr(ret.value.message)
          /\ ret.gateway_calls = <<>>

C25_Witness ==
    /\ ret.op = "charge"
    /\ gateway = "injected"
    /\ ChargedId = PyStr(<<"7">>)
    /\ ChargedAmount = PyDecimal(-1)
    /\ ret.value.success = PyBool(FALSE)
    /\ ret.gateway_calls = <<>>

\* C26: charge with a non-blank str order_id and a Decimal amount >= 0. With
\* a gateway injected, the gateway is called exactly once, with that order_id
\* and amount, and its answer is returned as it is; with no gateway the call
\* returns success.
C26_ChargeDelegates ==
    (/\ ret.op = "charge"
     /\ IsStr(ChargedId) /\ Strip(ChargedId.v) # <<>>
     /\ ChargedAmount.t = "Decimal" /\ ChargedAmount.v >= 0)
       => IF gateway = "injected"
          THEN /\ Len(ret.gateway_calls) = 1
               /\ ret.gateway_calls[1].order_id = ChargedId
               /\ ret.gateway_calls[1].amount = ChargedAmount
               /\ ret.value = ret.gateway_calls[1].answer
          ELSE /\ ret.gateway_calls = <<>>
               /\ ret.value.success = PyBool(TRUE)

C26_Witness ==
    /\ ret.op = "charge"
    /\ gateway = "injected"
    /\ ChargedId = PyStr(<<" ", "7">>)
    /\ ChargedAmount = PyDecimal(0)
    /\ Len(ret.gateway_calls) = 1
    /\ ret.value = [success |-> PyInt(1), message |-> PyStr("Charged")]

\* C27: mark_paid on a PENDING order makes it PAID and sets paid_at to the
\* clock reading; on an order that is not PENDING it fails with
\* InvalidStateTransition and leaves status and paid_at as they were. No step
\* changes the status or paid_at of an order that is already paid.
C27_MarkPaidOnce ==
    [][/\ \A i \in 1..MaxOrders :
             (ret'.op = "mark_paid" /\ MarkPaidCall(i)) =>
                IF orders[i].status = "PENDING"
                THEN /\ ret'.outcome = "ok"
                     /\ orders'[i].status = "PAID"
                     /\ orders'[i].paid_at = Time(now')
                     /\ now' > orders[i].created_at.v
                ELSE /\ ret'.outcome = "InvalidStateTransition"
                     /\ orders'[i].status = orders[i].status
                     /\ orders'[i].paid_at = orders[i].paid_at
       /\ \A i \in 1..Len(orders) :
             /\ orders'[i].status # orders[i].status
                   => orders[i].status = "PENDING" /\ orders'[i].status = "PAID"
             /\ orders[i].paid_at # NoTime => orders'[i].paid_at = orders[i].paid_at]_vars

C27_Witness ==
    /\ ret.op = "mark_paid"
    /\ ret.outcome = "InvalidStateTransition"
    /\ Len(orders) >= 1
    /\ orders[1].id = ret.order_id
    /\ orders[1].status = "PAID"
    /\ orders[1].paid_at # NoTime

\* a field that is empty once surrounding blanks are removed
BlankField(f) == \A i \in 1..Len(f) : f[i] = " "

\* exactly four characters, each a decimal digit
FourDigits(f) ==
    /\ Len(f) = 4
    /\ \A i \in 1..4 : f[i] \in {"0", "1", "2", "3", "4", "5", "6", "7", "8", "9"}

C29_LoggerNeverAborts ==
    [][\A p \in Products :
          /\ \A q \in QtyInputs :
                /\ (ret'.op = "add" /\ Add(p, q))
                     => /\ ret'.outcome = CartAdd(cart, catalogue, p, q).outcome
                        /\ cart' = CartAdd(cart, catalogue, p, q).cart
                /\ (ret'.op = "update_qty" /\ UpdateQty(p, q))
                     => /\ ret'.outcome = CartUpdateQty(cart, catalogue, p, q).outcome
                        /\ cart' = CartUpdateQty(cart, catalogue, p, q).cart
          /\ (ret'.op = "remove" /\ Remove(p))
               => /\ ret'.outcome = CartRemove(cart, p).outcome
                  /\ cart' = CartRemove(cart, p).cart]_vars

C29_Witness ==
    /\ logger = "attached"
    /\ ret.op = "update_qty"
    /\ ret.logger = "raises"
    /\ ret.outcome = "ok"
    /\ ret.existing_qty >= 1
    /\ Len(cart) = 1
    /\ cart[1].qty # ret.existing_qty

\* C30: in every reachable state, every order place_order has constructed has
\* total = calculate_subtotal() + shipping, shipping >= 0 and total > 0:
\* when it is built, after mark_paid, and after the cart is cleared or changed.
C30_OrderTotal ==
    \A i \in 1..Len(orders) :
        /\ orders[i].shipping >= 0
        /\ orders[i].total > 0
        /\ orders[i].total = CalculateSubtotal(orders[i]) + orders[i].shipping
        /\ orders[i].total = LineSum(orders[i].items) + orders[i].shipping

C30_Witness ==
    /\ Len(orders) >= 1
    /\ orders[1].status = "PAID"
    /\ pc = "idle"
    /\ cart # <<>>
    /\ CartSubtotal(cart) # CalculateSubtotal(orders[1])
    /\ orders[1].total = CalculateSubtotal(orders[1]) + orders[1].shipping
    /\ orders[1].shipping > 0

\* a step of a running place_order call
PlaceOrderStep ==
    \/ pc # "idle"
    \/ pc' # "idle"
    \/ ret'.op = "place_order" /\ ret' # ret

\* C31: place_order neither reads nor writes catalogue stock. No step of it
\* changes the catalogue, and with a valid address it gets as far as the
\* charge, and after a successful charge to the PAID order and the success
\* return, whatever stock the catalogue reports for the cart's lines then.
C31_StockNotRechecked ==
    [][/\ PlaceOrderStep => catalogue' = catalogue
       /\ (PlaceOrderTotals(GoodAddress) /\ cart # <<>>) => pc' = "totals"
       /\ (pc = "totals" /\ PlaceOrderCreate) => pc' = "created"
       /\ (pc = "charged" /\ PlaceOrderSettle /\ po.success = PyBool(TRUE) /\ IsStr(po.message))
             => pc' = "paid"
       /\ (pc = "paid" /\ PlaceOrderClear)
             => ret'.outcome = "ok" /\ orders[po.order].status = "PAID"]_vars

C31_Witness ==
    /\ ret.op = "place_order"
    /\ ret.outcome = "ok"
    /\ cart = <<>>
    /\ Len(orders) >= 1
    /\ orders[1].id = ret.order_id
    /\ orders[1].status = "PAID"
    /\ orders[1].items[1].product_id = P1
    /\ catalogue[P1].found
    /\ orders[1].items[1].qty > catalogue[P1].stock

\* the words of a message text
MessageWords(text) ==
    CASE text = "Charged" -> <<"Charged">>
      [] text = "Card declined" -> <<"Card", "declined">>
      [] text = "Payment approved for order" -> <<"Payment", "approved", "for", "order">>
      [] OTHER -> <<text>>

\* str.startswith, word by word
StartsWith(m, prefix) ==
    /\ IsStr(m)
    /\ Len(MessageWords(m.v)) >= Len(prefix)
    /\ SubSeq(MessageWords(m.v), 1, Len(prefix)) = prefix

\* the order place_order returned the id of
ReturnedOrder == CHOOSE i \in 1..Len(orders) : orders[i].id = ret.order_id

\* C32: checkout messages are standardized. The message place_order returns
\* for a checkout whose payment succeeded starts with 'Payment of $', and the
\* message it returns for a checkout whose payment failed starts with
\* 'Payment failed:', whatever text the payment gateway produced.
C32_MessagesStandardized ==
    (ret.op = "place_order" /\ ret.outcome = "ok") =>
        /\ orders[ReturnedOrder].status = "PAID"
              => StartsWith(ret.message, <<"Payment", "of", "$">>)
        /\ orders[ReturnedOrder].status = "PENDING"
              => StartsWith(ret.message, <<"Payment", "failed:">>)

\* the orders that are PAID, and the charges that answered a conforming success
PaidOrders(os) == {i \in 1..Len(os) : os[i].status = "PAID"}
IsSuccess(success, message) == ConformingReturn(success, message) /\ Truthy(success)
SuccessfulCharges(cs) == {j \in 1..Len(cs) : IsSuccess(cs[j].success, cs[j].message)}

\* 1 while a successful charge has returned and mark_paid is the next statement
AwaitingMarkPaid(p, frame) ==
    IF p = "charged" /\ IsSuccess(frame.success, frame.message) THEN 1 ELSE 0

\* order i belongs to a place_order call that has ended
CallEnded(i) == pc = "idle" \/ pc = "totals" \/ po.order # i

\* C33: a retry creates a new order. After a place_order whose payment
\* failed, a further place_order on the same cart constructs a new Order with
\* a different id and charges that new id; the earlier order is never charged
\* again and stays PENDING in every later state, so the number of PAID orders
\* always equals the number of successful charges (a success whose mark_paid
\* is the next statement counted with the PAID orders).
C33_RetryNewOrder ==
    [][/\ Len(orders') > Len(orders) =>
             /\ orders'[Len(orders')].status = "PENDING"
             /\ \A i \in 1..Len(orders) : orders'[Len(orders')].id # orders[i].id
       /\ Len(charges') > Len(charges) =>
             /\ po.order = Len(orders)
             /\ charges'[Len(charges')].order_id = orders[Len(orders)].id
       /\ \A i \in 1..Len(orders) :
             (orders[i].status = "PENDING" /\ CallEnded(i)) =>
                 /\ orders'[i] = orders[i]
                 /\ Len(charges') > Len(charges)
                       => charges'[Len(charges')].order_id # orders[i].id
       /\ Cardinality(PaidOrders(orders')) + AwaitingMarkPaid(pc', po')
              = Cardinality(SuccessfulCharges(charges'))]_vars

\* the retry after a declined payment was paid: two orders for the same cart
\* contents, the first PENDING and charged once, the second PAID
C33_Witness ==
    /\ ret.op = "place_order" /\ ret.outcome = "ok" /\ pc = "idle"
    /\ Len(orders) = 2 /\ Len(charges) = 2
    /\ orders[1].status = "PENDING" /\ orders[2].status = "PAID"
    /\ orders[1].items = orders[2].items
    /\ orders[1].id # orders[2].id
    /\ charges[1].order_id = orders[1].id /\ ~Truthy(charges[1].success)
    /\ charges[2].order_id = orders[2].id /\ IsSuccess(charges[2].success, charges[2].message)

\* the charge a step has just made
NewCharge == charges'[Len(charges')]

\* C34: within one place_order call PaymentService.charge is invoked at most
\* once, only after compute_totals has succeeded and the order has been
\* constructed and has passed the consistency check, with order_id equal to
\* the new order's id and amount equal to both the step-1 total and
\* order.total; no order id is ever charged twice.
C34_ChargeOnceAfterCheck ==
    [][/\ Len(charges') > Len(charges) =>
             /\ Len(charges') = Len(charges) + 1
             /\ pc = "created" /\ pc' = "charged"
             /\ ComputeTotals(po.cart0, policy, po.address).outcome = "ok"
             /\ ComputeTotals(po.cart0, policy, po.address).totals = po.totals
             /\ po.order = Len(orders)
             /\ orders[po.order].status = "PENDING"
             /\ NewCharge.order_id = orders[po.order].id
             /\ NewCharge.amount = po.totals[3]
             /\ NewCharge.amount = orders[po.order].total
             /\ \A j \in 1..Len(charges) : charges[j].order_id # NewCharge.order_id
       /\ pc \in {"charged", "paid"} => charges' = charges
       /\ pc' = "idle" => Len(charges') <= Len(orders')]_vars

\* two calls have each charged their own order once, for its total
C34_Witness ==
    /\ pc = "charged"
    /\ Len(orders) = 2 /\ Len(charges) = 2 /\ po.order = 2
    /\ charges[1].order_id = orders[1].id /\ charges[1].amount = orders[1].total
    /\ charges[2].order_id = orders[2].id /\ charges[2].amount = orders[2].total
    /\ charges[2].amount = po.totals[3]

\* C35: commit ordering on the success path: charge returns success, then
\* order.mark_paid, then cart.clear. place_order never clears the cart while
\* that call's order is still PENDING, and a call that ends in a failure, a
\* failure of mark_paid included, leaves the cart as it was.
C35_CommitOrder ==
    [][/\ (pc = "charged" /\ pc' = "paid") =>
             /\ IsSuccess(po.success, po.message)
             /\ charges[Len(charges)].order_id = orders[po.order].id
             /\ orders[po.order].status = "PENDING"
             /\ orders'[po.order].status = "PAID"
             /\ cart' = cart
       /\ (pc # "idle" /\ cart' # cart) =>
             /\ pc = "paid" /\ pc' = "idle"
             /\ orders[po.order].status = "PAID"
             /\ orders'[po.order].status = "PAID"
             /\ cart' = <<>>
             /\ ret'.outcome = "ok" /\ ret'.order_id = orders[po.order].id
       /\ (pc # "idle" /\ pc' = "idle" /\ ret'.outcome # "ok") => cart' = cart
       /\ (pc # "idle" /\ pc' = "idle" /\ ret'.outcome = "ok"
             /\ orders'[po.order].status = "PENDING") => cart' = cart]_vars

\* mark_paid has run and cart.clear has not yet: the order is PAID, the cart full
C35_Witness ==
    /\ pc = "paid"
    /\ orders[po.order].status = "PAID"
    /\ IsSuccess(po.success, po.message)
    /\ cart # <<>> /\ cart = po.cart0

\* the cart and a valid address add up to a total of zero
ZeroTotal(a) ==
    /\ cart # <<>>
    /\ ~Reports(AddressValidate(a))
    /\ CartSubtotal(cart) + CostFor(policy, cart, a) = 0

\* C36: the zero-total checkout. With a non-empty cart, a valid address and
\* subtotal + shipping = 0, compute_totals succeeds with total 0, but
\* place_order fails at the construction of the Order; charge is never
\* invoked and the cart is unchanged.
C36_ZeroTotal ==
    [][/\ (pc = "idle" /\ cart # <<>> /\ ret'.op = "compute_totals") =>
             \A a \in Addresses : (ZeroTotal(a) /\ ComputeTotalsCall(a)) =>
                 ret'.outcome = "ok" /\ ret'.totals[3] = 0
       /\ (pc = "idle" /\ cart # <<>> /\ pc' # "totals") =>
             \A a \in Addresses : ~(ZeroTotal(a) /\ PlaceOrderTotals(a))
       /\ (pc = "idle" /\ pc' = "totals" /\ ZeroTotal(po'.address)) => po'.totals[3] = 0
       /\ (pc = "totals" /\ po.totals[3] = 0) =>
             /\ ret' = Raised("OrderInvalid")
             /\ pc' = "idle"
             /\ orders' = orders
             /\ charges' = charges
             /\ cart' = cart]_vars

\* place_order has just failed on the Order of a free product shipped for free
C36_Witness ==
    /\ ret = Raised("OrderInvalid") /\ pc = "idle"
    /\ ZeroTotal(GoodAddress)
    /\ ComputeTotals(cart, policy, GoodAddress).outcome = "ok"
    /\ orders = <<>> /\ charges = <<>>

\* C37: with a catalogue whose stock never changes and from which no product
\* is removed, in every state reachable by add, update_qty, remove, clear and
\* place_order every cart line's qty is at most the catalogue stock of its
\* product.
C37_CartWithinStock ==
    \A i \in 1..Len(cart) :
        /\ catalogue[cart[i].product_id].found
        /\ cart[i].qty <= catalogue[cart[i].product_id].stock

\* after a checkout the cart again holds all the stock of P1, and a further
\* add has been refused
C37_Witness ==
    /\ ret.op = "add" /\ ret.outcome = "OutOfStock"
    /\ Len(orders) = 1
    /\ \E i \in 1..Len(cart) :
          cart[i].product_id = P1 /\ cart[i].qty = catalogue[P1].stock

\* C38: when nothing changes the cart while place_order runs, the total
\* mismatch is unreachable: the order _create_order_from_cart builds has the
\* total compute_totals returned, and place_order never raises the mismatch.
C38_NoMismatch ==
    [][/\ ret'.outcome # "OrderTotalMismatch"
       /\ (pc = "totals" /\ Len(orders') > Len(orders)) =>
             /\ cart = po.cart0
             /\ orders'[Len(orders')].total = po.totals[3]
             /\ orders'[Len(orders')].total
                   = CalculateSubtotal(orders'[Len(orders')]) + po.totals[2]
             /\ pc' = "created"]_vars

\* an order of two lines has passed the consistency check
C38_Witness ==
    /\ pc = "created"
    /\ cart = po.cart0
    /\ Len(orders[po.order].items) = 2
    /\ orders[po.order].total = po.totals[3]
    /\ po.totals[3] = po.totals[1] + po.totals[2]
    /\ po.totals[1] > 0

C40_NoDoublePurchase ==
    [][/\ (pc = "paid" /\ pc' = "idle") => (cart' = <<>> /\ ret'.outcome = "ok")
       /\ (cart = <<>> /\ cart' # <<>>) => (ret'.op = "add" /\ ret'.outcome = "ok")
       /\ (pc = "idle" /\ cart = <<>> /\ (ret'.op = "place_order" \/ pc' # "idle")) =>
             /\ ret' = Raised("EmptyCart")
             /\ pc' = "idle"
             /\ orders' = orders
             /\ charges' = charges
             /\ cart' = <<>>]_vars

\* the second place_order after a paid one, on the cart the first one emptied
C40_Witness ==
    /\ ret = Raised("EmptyCart") /\ pc = "idle"
    /\ cart = <<>>
    /\ Len(orders) = 1 /\ orders[1].status = "PAID"
    /\ Len(charges) = 1 /\ charges[1].order_id = orders[1].id
====
